---- MODULE Spec2Model ----
(***************************************************************************)
(* ArcRaiders Data API: a Cloudflare worker that proxies a GitHub-hosted   *)
(* JSON dataset through the edge cache.  The model follows the worker with *)
(* the full/limit/offset listing (src/unnamed/part_000).                   *)
(*                                                                         *)
(* Strings that the code takes apart or puts together (paths, type names,  *)
(* ids, file names, query values, messages, URLs) are sequences of         *)
(* one-character strings; a fixed literal of a template string is one      *)
(* element of the sequence.                                                *)
(***************************************************************************)
EXTENDS Integers, Sequences, FiniteSets, TLC

\* -------------------------------------------------------------------------
\* Bounds of the model
\* -------------------------------------------------------------------------

\* Item fetches of one batch settle in any order within a window of
\* ReplyWindow places of the page that starts at the first outstanding one.
ReplyWindow == 3

\* A new request is accepted while fewer than MaxPending cache puts handed
\* to ctx.waitUntil are outstanding.
MaxPending == 1

\* Index of the last directory item an upstream fault may be planted on.
MaxFaultIdx == 2

\* Number of items of a small directory
SmallDir == 3

\* A client that follows next links gives up after this many pages.
MaxWalkPages == 4

\* Items of the large directory: more than a full=true batch may fetch
BigDir == 47

\* -------------------------------------------------------------------------
\* Characters and strings
\* -------------------------------------------------------------------------

Lower == {"a", "b", "c", "d", "e", "f", "g", "h", "i", "j", "k", "l", "m",
          "n", "o", "p", "q", "r", "s", "t", "u", "v", "w", "x", "y", "z"}

DigitSeq == <<"0", "1", "2", "3", "4", "5", "6", "7", "8", "9">>

Digits == {DigitSeq[i] : i \in 1..10}

DigitVal(c) == (CHOOSE i \in 1..10 : DigitSeq[i] = c) - 1

\* The regular expression class [a-z-]
TypeChar(c) == c \in Lower \cup {"-"}

\* The regular expression class [a-z0-9_-]
IdChar(c) == c \in Lower \cup Digits \cup {"_", "-"}

AllTypeChars(s) == \A i \in 1..Len(s) : TypeChar(s[i])

AllIdChars(s) == \A i \in 1..Len(s) : IdChar(s[i])

StartsWith(s, p) == Len(s) >= Len(p) /\ SubSeq(s, 1, Len(p)) = p

EndsWith(s, p) == Len(s) >= Len(p) /\ SubSeq(s, Len(s) - Len(p) + 1, Len(s)) = p

\* First position of pat in s, 0 when s does not hold it (String.indexOf + 1).
IndexOf(s, pat) ==
    LET hits == {i \in 1..(Len(s) - Len(pat) + 1) : SubSeq(s, i, i + Len(pat) - 1) = pat}
    IN IF hits = {} THEN 0 ELSE CHOOSE i \in hits : \A j \in hits : i <= j

\* String.prototype.replace(pat, with) for a string pattern: the FIRST
\* occurrence only.
ReplaceFirst(s, pat, with) ==
    LET i == IndexOf(s, pat)
    IN IF i = 0 THEN s
       ELSE SubSeq(s, 1, i - 1) \o with \o SubSeq(s, i + Len(pat), Len(s))

\* String.prototype.slice(0, -1)
SliceDropLast(s) == SubSeq(s, 1, Len(s) - 1)

\* Array.prototype.slice(start) for start > 0
SliceFrom(a, start) == SubSeq(a, start + 1, Len(a))

\* Array.prototype.slice(0, end): a negative end counts from the end.
SliceTo(a, end) ==
    LET e == IF end < 0 THEN (IF Len(a) + end < 0 THEN 0 ELSE Len(a) + end)
             ELSE (IF end > Len(a) THEN Len(a) ELSE end)
    IN SubSeq(a, 1, e)

\* A query parameter as URLSearchParams.get returns it: null when the
\* parameter is absent, else its text.
Absent == [has |-> FALSE, v |-> <<>>]

Val(s) == [has |-> TRUE, v |-> s]

RECURSIVE DigitsValue(_, _)
\* Value of the leading decimal digits of s, given the value acc so far.
DigitsValue(s, acc) ==
    IF s = <<>> \/ s[1] \notin Digits THEN acc
    ELSE DigitsValue(Tail(s), 10 * acc + DigitVal(s[1]))

RECURSIVE TrimLeft(_)
TrimLeft(s) == IF s # <<>> /\ s[1] = " " THEN TrimLeft(Tail(s)) ELSE s

HexSeq == DigitSeq \o <<"a", "b", "c", "d", "e", "f">>

HexDigits == {HexSeq[i] : i \in 1..16} \cup {"A", "B", "C", "D", "E", "F"}

HexVal(c) ==
    IF c \in {HexSeq[i] : i \in 1..16} THEN (CHOOSE i \in 1..16 : HexSeq[i] = c) - 1
    ELSE CHOOSE n \in 10..15 : <<"A", "B", "C", "D", "E", "F">>[n - 9] = c

RECURSIVE HexValue(_, _)
\* Value of the leading hexadecimal digits of s, given the value acc so far.
HexValue(s, acc) ==
    IF s = <<>> \/ s[1] \notin HexDigits THEN acc
    ELSE HexValue(Tail(s), 16 * acc + HexVal(s[1]))

\* parseInt(q) of a query parameter: [nan, n].  null reads as the text
\* "null"; leading blanks are skipped, a sign is taken, then a 0x or 0X
\* prefix with its hexadecimal digits, else the leading decimal digits; NaN
\* when there is no digit.
parseInt(q) ==
    LET t == TrimLeft(q.v)
        neg == t # <<>> /\ t[1] = "-"
        u == IF t # <<>> /\ t[1] \in {"-", "+"} THEN Tail(t) ELSE t
        hex == Len(u) >= 2 /\ u[1] = "0" /\ u[2] \in {"x", "X"}
        h == SubSeq(u, 3, Len(u))
        mag == IF hex THEN HexValue(h, 0) ELSE DigitsValue(u, 0)
    IN IF ~q.has \/ u = <<>> \/ u[1] \notin Digits
          \/ (hex /\ (h = <<>> \/ h[1] \notin HexDigits))
       THEN [nan |-> TRUE, n |-> 0]
       ELSE [nan |-> FALSE, n |-> IF neg THEN 0 - mag ELSE mag]

\* parseInt(...) || undefined: NaN and 0 are falsy.  [def, n]
OrUndefined(p) == [def |-> ~p.nan /\ p.n # 0, n |-> IF p.nan THEN 0 ELSE p.n]

\* parseInt(...) || 0
OrZero(p) == IF p.nan THEN 0 ELSE p.n

RECURSIVE NatToStr(_)
NatToStr(n) ==
    IF n < 10 THEN <<DigitSeq[n + 1]>>
    ELSE NatToStr(n \div 10) \o <<DigitSeq[(n % 10) + 1]>>

\* ${n} in a template string
NumToStr(n) == IF n < 0 THEN <<"-">> \o NatToStr(0 - n) ELSE NatToStr(n)

\* Rank of a character in the collation order localeCompare uses for the
\* characters of file names: punctuation, then digits, then letters.
Collation ==
    <<"_", "-", ".", "0", "1", "2", "3", "4", "5", "6", "7", "8", "9",
      "a", "b", "c", "d", "e", "f", "g", "h", "i", "j", "k", "l", "m",
      "n", "o", "p", "q", "r", "s", "t", "u", "v", "w", "x", "y", "z">>

CharRank(c) == CHOOSE i \in 1..Len(Collation) : Collation[i] = c

RECURSIVE localeLess(_, _)
\* a.localeCompare(b) < 0
localeLess(a, b) ==
    IF b = <<>> THEN FALSE
    ELSE IF a = <<>> THEN TRUE
    ELSE IF a[1] = b[1] THEN localeLess(Tail(a), Tail(b))
    ELSE CharRank(a[1]) < CharRank(b[1])

RECURSIVE InsertSorted(_, _)
InsertSorted(x, s) ==
    IF s = <<>> THEN <<x>>
    ELSE IF localeLess(x, s[1]) THEN <<x>> \o s
    ELSE <<s[1]>> \o InsertSorted(x, Tail(s))

RECURSIVE SortIds(_)
\* .sort((a, b) => a.localeCompare(b))
SortIds(s) == IF s = <<>> THEN <<>> ELSE InsertSorted(s[1], SortIds(Tail(s)))

Range(s) == {s[i] : i \in 1..Len(s)}

\* -------------------------------------------------------------------------
\* Configuration (part_000 lines 6-27)
\* -------------------------------------------------------------------------

GITHUB_BASE == <<"https://raw.githubusercontent.com/RaidTheory/arcraiders-data/main">>

GITHUB_API_CONTENTS == <<"https://api.github.com/repos/RaidTheory/arcraiders-data/contents/">>

CACHE_TTL == 3600

STALE_WHILE_REVALIDATE == 86400

MAX_ITEMS == 45

T_items == <<"i", "t", "e", "m", "s">>
T_hideout == <<"h", "i", "d", "e", "o", "u", "t">>
T_quests == <<"q", "u", "e", "s", "t", "s">>
T_map_events == <<"m", "a", "p", "-", "e", "v", "e", "n", "t", "s">>
T_bots == <<"b", "o", "t", "s">>
T_maps == <<"m", "a", "p", "s">>
T_projects == <<"p", "r", "o", "j", "e", "c", "t", "s">>
T_skillNodes == <<"s", "k", "i", "l", "l", "N", "o", "d", "e", "s">>
T_skill_nodes == <<"s", "k", "i", "l", "l", "-", "n", "o", "d", "e", "s">>
T_trades == <<"t", "r", "a", "d", "e", "s">>
T_constructor == <<"c", "o", "n", "s", "t", "r", "u", "c", "t", "o", "r">>
DotJson == <<".", "j", "s", "o", "n">>
S_true == <<"t", "r", "u", "e">>

\* What an object literal answers to obj[key]: the value of its own property,
\* else the property it inherits from Object.prototype, else undefined.  Of
\* the inherited names only "constructor" can be written with [a-z-]; its
\* value is a function, which a template string prints as below.
ObjectPrototype == {T_constructor}

NativeFunctionText == <<"function Object() { [native code] }">>

\* [found, value]: found is "own", "inherited" or "none".
Lookup(own, key) ==
    IF \E e \in own : e[1] = key
    THEN [found |-> "own", value |-> (CHOOSE e \in own : e[1] = key)[2]]
    ELSE IF key \in ObjectPrototype
    THEN [found |-> "inherited", value |-> NativeFunctionText]
    ELSE [found |-> "none", value |-> <<>>]

\* if (obj[key]): every own value is a non-empty string, a function is truthy.
Truthy(l) == l.found # "none"

COLLECTION_TYPES ==
    {<<T_items, T_items>>, <<T_hideout, T_hideout>>, <<T_quests, T_quests>>,
     <<T_map_events, T_map_events>>}

SINGLE_FILE_TYPES ==
    {<<T_bots, T_bots \o DotJson>>, <<T_maps, T_maps \o DotJson>>,
     <<T_projects, T_projects \o DotJson>>,
     <<T_skillNodes, T_skillNodes \o DotJson>>,
     <<T_skill_nodes, T_skillNodes \o DotJson>>,
     <<T_trades, T_trades \o DotJson>>}

\* -------------------------------------------------------------------------
\* Route matching (fetch, part_000 lines 30-100)
\* -------------------------------------------------------------------------

V1Prefix == <<"/", "v", "1", "/">>

\* path with one trailing "/" removed, when it has one (the \/? of both
\* regular expressions)
DropSlash(s) == IF s # <<>> /\ s[Len(s)] = "/" THEN SubSeq(s, 1, Len(s) - 1) ELSE s

\* path.match(/^\/v1\/([a-z-]+)\/?$/): [ok, type]
listMatch(path) ==
    LET rest == DropSlash(SubSeq(path, Len(V1Prefix) + 1, Len(path)))
    IN IF StartsWith(path, V1Prefix) /\ rest # <<>> /\ AllTypeChars(rest)
       THEN [ok |-> TRUE, type |-> rest]
       ELSE [ok |-> FALSE, type |-> <<>>]

\* path.match(/^\/v1\/([a-z-]+)\/([a-z0-9_-]+)\/?$/): [ok, type, id]
itemMatch(path) ==
    LET rest == DropSlash(SubSeq(path, Len(V1Prefix) + 1, Len(path)))
        cut == IndexOf(rest, <<"/">>)
        type == SubSeq(rest, 1, cut - 1)
        id == SubSeq(rest, cut + 1, Len(rest))
    IN IF StartsWith(path, V1Prefix) /\ cut > 1 /\ id # <<>>
          /\ AllTypeChars(type) /\ AllIdChars(id)
       THEN [ok |-> TRUE, type |-> type, id |-> id]
       ELSE [ok |-> FALSE, type |-> <<>>, id |-> <<>>]

InfoPaths == {<<"/", "v", "1">>, <<"/", "v", "1", "/">>, <<"/">>}

\* fetch matching the path before it looks at the method
Route_PathFirst(req) ==
    LET lm == listMatch(req.path)
        im == itemMatch(req.path)
        none == [kind |-> "notfound", type |-> <<>>, id |-> <<>>, full |-> FALSE,
                 limit |-> [def |-> FALSE, n |-> 0], offset |-> 0]
    IN IF lm.ok THEN
            IF Truthy(Lookup(SINGLE_FILE_TYPES, lm.type))
            THEN [none EXCEPT !.kind = "single", !.type = lm.type]
            ELSE IF Truthy(Lookup(COLLECTION_TYPES, lm.type))
            THEN [none EXCEPT !.kind = "list", !.type = lm.type,
                              !.full = (req.query.full = Val(S_true)),
                              !.limit = OrUndefined(parseInt(req.query.limit)),
                              !.offset = OrZero(parseInt(req.query.offset))]
            ELSE [none EXCEPT !.kind = "unknown", !.type = lm.type]
       ELSE IF im.ok THEN [none EXCEPT !.kind = "item", !.type = im.type, !.id = im.id]
       ELSE IF req.method = "OPTIONS" THEN [none EXCEPT !.kind = "cors"]
       ELSE IF req.path \in InfoPaths THEN [none EXCEPT !.kind = "info"]
       ELSE none

\* The branch fetch takes for a request: its kind and what it hands to the
\* handler.  kind is one of
\*   "cors"     handleCors()
\*   "single"   handleSingleFile(type)
\*   "list"     handleList(type, full, limit, offset)
\*   "unknown"  404 Unknown data type
\*   "item"     handleGetItem(type, id)
\*   "info"     the API description
\*   "notfound" 404 Not Found
Route(req) ==
    LET lm == listMatch(req.path)
        im == itemMatch(req.path)
        none == [kind |-> "notfound", type |-> <<>>, id |-> <<>>, full |-> FALSE,
                 limit |-> [def |-> FALSE, n |-> 0], offset |-> 0]
    IN IF req.method = "OPTIONS" THEN [none EXCEPT !.kind = "cors"]
       ELSE IF lm.ok THEN
            IF Truthy(Lookup(SINGLE_FILE_TYPES, lm.type))
            THEN [none EXCEPT !.kind = "single", !.type = lm.type]
            ELSE IF Truthy(Lookup(COLLECTION_TYPES, lm.type))
            THEN [none EXCEPT !.kind = "list", !.type = lm.type,
                              !.full = (req.query.full = Val(S_true)),
                              !.limit = OrUndefined(parseInt(req.query.limit)),
                              !.offset = OrZero(parseInt(req.query.offset))]
            ELSE [none EXCEPT !.kind = "unknown", !.type = lm.type]
       ELSE IF im.ok THEN [none EXCEPT !.kind = "item", !.type = im.type, !.id = im.id]
       ELSE IF req.path \in InfoPaths THEN [none EXCEPT !.kind = "info"]
       ELSE none

\* -------------------------------------------------------------------------
\* Responses (jsonResponse, addCorsHeaders, handleCors)
\* -------------------------------------------------------------------------

\* headers.set(name, value): replaces the header of that name.
SetHeader(h, name, value) == {p \in h : p[1] # name} \cup {<<name, value>>}

CacheControl ==
    <<"public, max-age=">> \o NumToStr(CACHE_TTL)
        \o <<", stale-while-revalidate=">> \o NumToStr(STALE_WHILE_REVALIDATE)

JsonHeaders == {<<"Content-Type", <<"application/json">> >>}

\* new Response(JSON.stringify(data, null, 2), {status, headers})
jsonResponse(data, status) == [status |-> status, headers |-> JsonHeaders, body |-> data]

ErrorBody(msg) == [t |-> "error", error |-> msg]

CorsSecurityHeaders ==
    {<<"Access-Control-Allow-Origin", <<"*">> >>,
     <<"Access-Control-Allow-Methods", <<"GET, OPTIONS">> >>,
     <<"Access-Control-Allow-Headers", <<"Content-Type">> >>,
     <<"Strict-Transport-Security", <<"max-age=31536000; includeSubDomains; preload">> >>,
     <<"X-Content-Type-Options", <<"nosniff">> >>,
     <<"X-Frame-Options", <<"DENY">> >>,
     <<"X-XSS-Protection", <<"1; mode=block">> >>,
     <<"Referrer-Policy", <<"strict-origin-when-cross-origin">> >>}

\* new Response(response.body, response) with the eight headers set
addCorsHeaders(response) ==
    [response EXCEPT !.headers =
        {p \in response.headers : \A c \in CorsSecurityHeaders : c[1] # p[1]}
            \cup CorsSecurityHeaders]

\* new Response(null, {headers}): the status defaults to 200.
handleCors ==
    [status |-> 200,
     headers |-> {<<"Access-Control-Allow-Origin", <<"*">> >>,
                  <<"Access-Control-Allow-Methods", <<"GET, OPTIONS">> >>,
                  <<"Access-Control-Allow-Headers", <<"Content-Type">> >>,
                  <<"Access-Control-Max-Age", <<"86400">> >>,
                  <<"Strict-Transport-Security",
                    <<"max-age=31536000; includeSubDomains; preload">> >>},
     body |-> [t |-> "empty"]]

InfoBody == [t |-> "info"]

\* The exception leaving fetch uncaught: no response of the service
InternalServerError_Raw == [status |-> 0, headers |-> {}, body |-> [t |-> "fault"]]

\* The catch of fetch
InternalServerError == jsonResponse(ErrorBody(<<"Internal Server Error">>), 500)

\* The response new Response(githubResponse.body, {status: 200, headers})
\* that handleSingleFile and handleGetItem build and cache.
PassThrough(content) ==
    [status |-> 200,
     headers |-> {<<"Content-Type", <<"application/json">> >>,
                  <<"Cache-Control", CacheControl>>},
     body |-> content]

\* A clone taken after the body was read: the copy has an empty body
clone_Consumed(response) == [response EXCEPT !.body = [t |-> "empty"]]

\* response.clone(), which cache.put is given: the same status, headers and
\* body bytes
clone(response) == response

\* jsonResponse(data) with Cache-Control set, as handleList caches it
Cacheable(data) ==
    [jsonResponse(data, 200) EXCEPT
        !.headers = SetHeader(JsonHeaders, "Cache-Control", CacheControl)]

\* -------------------------------------------------------------------------
\* URLs and cache keys
\* -------------------------------------------------------------------------

\* `${GITHUB_BASE}/${filename}`
fileUrl(filename) == GITHUB_BASE \o <<"/">> \o filename

\* `${GITHUB_BASE}/${dirPath}/${id}.json`
itemUrl(dirPath, id) == GITHUB_BASE \o <<"/">> \o dirPath \o <<"/">> \o id \o DotJson

\* `https://api.github.com/repos/RaidTheory/arcraiders-data/contents/${dirPath}`
githubApiUrl(dirPath) == GITHUB_API_CONTENTS \o dirPath

\* const cacheKeySuffix = full ? '?full=true' : ''
cacheKeySuffix(full) == IF full THEN <<"?", "f", "u", "l", "l", "=", "t", "r", "u", "e">> ELSE <<>>

\* new Request(githubApiUrl + cacheKeySuffix): the cache key of handleList
listCacheKey(dirPath, full) == githubApiUrl(dirPath) \o cacheKeySuffix(full)

\* -------------------------------------------------------------------------
\* handleList: from the directory manifest to the response data
\* -------------------------------------------------------------------------

keepFile(f) == f.type = "file" /\ EndsWith(f.name, DotJson) /\ ~StartsWith(f.name, <<"_">>)

RECURSIVE filterMap(_)
\* files.filter(...).map((f) => f.name.replace('.json', ''))
filterMap(files) ==
    IF files = <<>> THEN <<>>
    ELSE (IF keepFile(files[1]) THEN <<ReplaceFirst(files[1].name, DotJson, <<>>)>> ELSE <<>>)
         \o filterMap(Tail(files))

\* The ids left in the order of the manifest
allJsonFiles_Unsorted(files) == filterMap(files)

allJsonFiles(files) == SortIds(filterMap(files))

\* let jsonFiles = allJsonFiles; if (offset > 0) jsonFiles = jsonFiles.slice(offset)
jsonFiles(all, offset) == IF offset > 0 THEN SliceFrom(all, offset) ELSE all

\* limit && limit < MAX_ITEMS ? limit : MAX_ITEMS
effectiveLimit(limit) == IF limit.def /\ limit.n < MAX_ITEMS THEN limit.n ELSE MAX_ITEMS

limitedFiles(all, offset, limit) == SliceTo(jsonFiles(all, offset), effectiveLimit(limit))

\* A pagination link `/v1/${type}?full=true&offset=${o}&limit=${l}`, kept as
\* the request a client makes of it.
PageLink(type, o, l) ==
    [has |-> TRUE, path |-> V1Prefix \o type,
     query |-> [full |-> Val(S_true), offset |-> Val(NumToStr(o)), limit |-> Val(NumToStr(l))]]

NoLink == [has |-> FALSE, path |-> <<>>, query |-> [full |-> Absent, offset |-> Absent, limit |-> Absent]]

Max(a, b) == IF a >= b THEN a ELSE b

\* fullData taking the total after the offset drop
fullData_TotalAfterDrop(type, totalItems, offset, limit, itemsData) ==
    LET eff == effectiveLimit(limit)
        kept == SelectSeq(itemsData, LAMBDA x : x.ok)
    IN [t |-> "full", type |-> type, total |-> Max(0, totalItems - offset),
        count |-> Len(kept), offset |-> offset, limit |-> eff,
        items |-> [i \in 1..Len(kept) |-> kept[i].json],
        next |-> IF offset + eff < totalItems THEN PageLink(type, offset + eff, eff) ELSE NoLink,
        prev |-> IF offset > 0 THEN PageLink(type, Max(0, offset - eff), eff) ELSE NoLink]

\* fullData counting the fetched ids instead of the payloads it keeps
fullData_CountFetched(type, totalItems, offset, limit, itemsData) ==
    LET eff == effectiveLimit(limit)
        kept == SelectSeq(itemsData, LAMBDA x : x.ok)
    IN [t |-> "full", type |-> type, total |-> totalItems, count |-> Len(itemsData),
        offset |-> offset, limit |-> eff,
        items |-> [i \in 1..Len(kept) |-> kept[i].json],
        next |-> IF offset + eff < totalItems THEN PageLink(type, offset + eff, eff) ELSE NoLink,
        prev |-> IF offset > 0 THEN PageLink(type, Max(0, offset - eff), eff) ELSE NoLink]

\* data of the full=true branch; itemsData holds a payload or null for each
\* fetched id, in the order of the ids.
fullData(type, totalItems, offset, limit, itemsData) ==
    LET eff == effectiveLimit(limit)
        kept == SelectSeq(itemsData, LAMBDA x : x.ok)
    IN [t |-> "full", type |-> type, total |-> totalItems, count |-> Len(kept),
        offset |-> offset, limit |-> eff,
        items |-> [i \in 1..Len(kept) |-> kept[i].json],
        next |-> IF offset + eff < totalItems THEN PageLink(type, offset + eff, eff) ELSE NoLink,
        prev |-> IF offset > 0 THEN PageLink(type, Max(0, offset - eff), eff) ELSE NoLink]

\* data of the list-only branch
listData(type, files) ==
    LET items == [i \in 1..Len(files) |-> [id |-> files[i], url |-> V1Prefix \o type \o <<"/">> \o files[i]]]
    IN [t |-> "list", type |-> type, count |-> Len(items), items |-> items]

\* -------------------------------------------------------------------------
\* The upstream (GitHub raw content and the contents API)
\* -------------------------------------------------------------------------

NameLetters == <<"a", "b", "c", "d", "e", "f", "g", "h", "i", "j">>

\* Name of the i-th item of a directory: a0, a1, ..., a9, b0, ...
ItemName(i) == <<NameLetters[((i - 1) \div 10) + 1], DigitSeq[((i - 1) % 10) + 1]>>

\* Entries of a directory that are not items: a reserved file, a file that is
\* not JSON, a subdirectory, a subdirectory named like a JSON file.
ExtraEntries ==
    <<[name |-> <<"_", "m", "e", "t", "a", ".", "j", "s", "o", "n">>, type |-> "file"],
      [name |-> <<"R", "E", "A", "D", "M", "E", ".", "m", "d">>, type |-> "file"],
      [name |-> <<"s", "u", "b">>, type |-> "dir"],
      [name |-> <<"o", "l", "d", ".", "j", "s", "o", "n">>, type |-> "dir"]>>

\* The manifest the contents API returns for a directory of n items; the
\* items come last first, so that the sort has work to do.
Manifest(n) ==
    SubSeq(ExtraEntries, 1, 2)
        \o [i \in 1..n |-> [name |-> ItemName(n + 1 - i) \o DotJson, type |-> "file"]]
        \o SubSeq(ExtraEntries, 3, 4)

\* Files with a name that holds more dots than the one of its extension
OddEntries ==
    <<[name |-> <<"v", "1", ".", "1">> \o DotJson, type |-> "file"],
      [name |-> <<"x">> \o DotJson \o <<".", "b", "a", "k">> \o DotJson, type |-> "file"]>>

\* The manifest of the directory of scenario e: its items and other
\* entries, then the files the scenario adds
Listing(e) == Manifest(e.n) \o e.extra

UpstreamDirs == {T_items, T_hideout, T_quests, T_map_events}

UpstreamFiles == {T_bots \o DotJson, T_maps \o DotJson, T_projects \o DotJson,
                  T_skillNodes \o DotJson, T_trades \o DotJson}

\* What an outbound fetch can come to: a 2xx answer, a 404, another
\* non-success status, no answer at all (the fetch promise rejects), or a
\* 2xx answer whose body is not the JSON its reader expects (json() rejects,
\* or the listing is not an array of entries).
UpStatus == {"ok", "notfound", "error", "throw", "garbled"}

NoFault == [at |-> "none", kind |-> "ok", idx |-> 0]

FileContent(name) == [t |-> "file", name |-> name, dir |-> <<>>]

ItemContent(dir, name) == [t |-> "file", name |-> name, dir |-> dir]

\* A body that is not JSON
GarbledContent == [t |-> "garbled", name |-> <<>>, dir |-> <<>>]

\* Names of the entries of type file of a directory of n items
FileNames(n) ==
    {ItemName(i) \o DotJson : i \in 1..n}
        \cup {ExtraEntries[k].name : k \in {k \in 1..Len(ExtraEntries) : ExtraEntries[k].type = "file"}}

\* URL prefix of the raw files of directory d
DirPrefix(d) == GITHUB_BASE \o <<"/">> \o d \o <<"/">>

\* The answer of the upstream to a fetch of url under scenario e:
\* [status, files, content].
Upstream(e, url) ==
    LET none == [status |-> "notfound", files |-> <<>>, content |-> FileContent(<<>>)]
        dirs == {d \in UpstreamDirs : StartsWith(url, DirPrefix(d))}
        answer ==
          IF \E d \in UpstreamDirs : url = githubApiUrl(d)
          THEN [none EXCEPT !.status = IF e.fault.at = "list" THEN e.fault.kind ELSE "ok",
                            !.files = Listing(e)]
          ELSE IF \E f \in UpstreamFiles : url = fileUrl(f)
          THEN [none EXCEPT !.status = IF e.fault.at = "file" THEN e.fault.kind ELSE "ok",
                            !.content = FileContent(CHOOSE f \in UpstreamFiles : url = fileUrl(f))]
          ELSE IF dirs # {}
          THEN LET d == CHOOSE d \in dirs : TRUE
                   name == SubSeq(url, Len(DirPrefix(d)) + 1, Len(url))
               IN IF name \in FileNames(e.n) \cup {e.extra[k].name : k \in 1..Len(e.extra)}
                  THEN [none EXCEPT
                          !.status = IF e.fault.at = "item" /\ name = ItemName(e.fault.idx) \o DotJson
                                     THEN e.fault.kind ELSE "ok",
                          !.content = ItemContent(d, name)]
                  ELSE none
          ELSE none
    IN IF answer.status = "garbled"
       THEN [answer EXCEPT !.files = <<>>, !.content = GarbledContent]
       ELSE answer

\* -------------------------------------------------------------------------
\* State
\* -------------------------------------------------------------------------

VARIABLES
    env,        \* the scenario: upstream content and faults, what clients ask
    cache,      \* caches.default: a set of [key, resp, tag], one entry per key
    pending,    \* cache puts handed to ctx.waitUntil and not yet settled
    slot,       \* the requests in flight, by isolate slot
    prev,       \* the request answered last and its response
    walk        \* the client that follows next links from offset 0

vars == <<env, cache, pending, slot, prev, walk>>

SlotIds == {1, 2}

NoQuery == [full |-> Absent, limit |-> Absent, offset |-> Absent]

NoReq == [method |-> "NONE", scheme |-> "https", path |-> <<>>, query |-> NoQuery]

NoResp == [status |-> 0, headers |-> {}, body |-> [t |-> "none"]]

NoPrev == [req |-> NoReq, resp |-> NoResp]

\* pc: "idle", "file" (awaiting the raw fetch), "list" (awaiting the
\* directory listing), "items" (awaiting the batch) or "done" (answered).
\* calls counts the outbound fetches issued; page is limitedFiles; out, got
\* and bad are the ids whose fetch is outstanding, answered ok, answered a
\* non-success status; same tells that the request repeats the one answered
\* last, whose response is then ref; again tells that it also found in the
\* cache the entry that request stored or was answered from; put tells what
\* became of the cache put of the request: "none" (not issued), "issued", or
\* "failed" (its promise rejected while the request was still in its slot);
\* unordered tells that an item fetch settled while the fetch of an earlier
\* id of the page was outstanding.
IdleSlot ==
    [pc |-> "idle", req |-> NoReq, key |-> <<>>, hit |-> FALSE, calls |-> 0,
     total |-> 0, page |-> <<>>, out |-> {}, got |-> {}, bad |-> {},
     resp |-> NoResp, same |-> FALSE, again |-> FALSE, ref |-> NoResp,
     put |-> "none", unordered |-> FALSE]

\* The tag of a cache entry or put tells whose response it holds: that of
\* the request in flight in a slot, of the request answered last, or of an
\* older one.
SlotTag(s) == <<"slot", s>>

LastTag == <<"last">>

OldTag == <<"old">>

\* The tags after the request of slot s is answered
Retag(entries, s) ==
    {[e EXCEPT !.tag = IF e.tag = SlotTag(s) THEN LastTag
                       ELSE IF e.tag = LastTag THEN OldTag ELSE e.tag] : e \in entries}

Get(path) == [method |-> "GET", scheme |-> "https", path |-> path, query |-> NoQuery]

\* A CORS preflight of a path
Options(path) == [Get(path) EXCEPT !.method = "OPTIONS"]

\* The same request made over plain http
OverHttp(req) == [req EXCEPT !.scheme = "http"]

CacheHas(key) == \E c \in cache : c.key = key

CacheEntry(key) == CHOOSE c \in cache : c.key = key

CacheGet(key) == CacheEntry(key).resp

\* cache.put(key, response): the entry of the key is replaced.
CachePut(p) == {c \in cache : c.key # p.key} \cup {p}

\* -------------------------------------------------------------------------
\* Scenarios: what the upstream holds and what clients ask
\* -------------------------------------------------------------------------

\* Type names clients put after /v1/
TypeNames ==
    {T_items, T_hideout, T_quests, T_map_events,
     T_bots, T_maps, T_projects, T_skillNodes, T_skill_nodes, T_trades,
     T_constructor, <<"n", "o", "t", "-", "a", "-", "t", "y", "p", "e">>, <<"s", "k", "i", "l", "l">>, <<"i", "t", "e", "m">>}

CollectionNames == {c[1] : c \in COLLECTION_TYPES}

Failures == UpStatus \ {"ok"}

\* Faults of a scenario that asks for every route of one type name
RouteFaults(tn) ==
    {NoFault, [at |-> "cache", kind |-> "throw", idx |-> 0]}
    \cup (IF tn \in CollectionNames
          THEN {[at |-> "list", kind |-> k, idx |-> 0] : k \in Failures}
               \cup {[at |-> "item", kind |-> k, idx |-> MaxFaultIdx] : k \in Failures}
          ELSE {[at |-> "file", kind |-> k, idx |-> 0] : k \in Failures})

\* The routes of one type name
RouteRequests(tn) ==
    LET base == V1Prefix \o tn
    IN {Get(base), Get(base \o <<"/">>), Get(base \o <<"/">> \o ItemName(MaxFaultIdx)),
        Get(base \o <<"/", "g", "h", "o", "s", "t">>), Get(<<"/", "v", "1">>),
        Get(<<"/", "v", "2", "/", "i", "t", "e", "m", "s">>),
        Options(base)}

\* Preflights of a type path, an item path and a path that matches no
\* route, and requests made over plain http, beside the GET of the type
PreflightRequests(tn) ==
    LET base == V1Prefix \o tn
    IN {Get(base), Options(base), Options(base \o <<"/">> \o ItemName(1)),
        Options(<<"/", "/", "v", "1", "/", "%">>),
        OverHttp(Get(base)), OverHttp(Options(base))}

PreflightNames == {T_items, T_bots, T_skillNodes}

\* Query strings of collection requests: list-only with and without an
\* offset, full with no limit, a limit, a limit and an offset, a negative
\* limit.
ListQueries ==
    {[full |-> Absent, limit |-> Absent, offset |-> Absent],
     [full |-> Absent, limit |-> Absent, offset |-> Val(<<"2">>)],
     [full |-> Val(S_true), limit |-> Absent, offset |-> Absent],
     [full |-> Val(S_true), limit |-> Val(<<"2">>), offset |-> Absent],
     [full |-> Val(S_true), limit |-> Val(<<"2">>), offset |-> Val(<<"2">>)],
     [full |-> Val(S_true), limit |-> Val(<<"-", "1">>), offset |-> Absent]}

\* The listings one scenario asks for: one query, or two queries that
\* have the same cache key (they differ in offset or limit only)
ListPairs ==
    {qs \in {{q1, q2} : q1 \in ListQueries, q2 \in ListQueries} :
        \A q1 \in qs : \A q2 \in qs : q1.full = q2.full}

ListRequest(tn, q) == [Get(V1Prefix \o tn) EXCEPT !.query = q]

\* Faults of a scenario that asks for listings
ListFaults ==
    {NoFault, [at |-> "list", kind |-> "error", idx |-> 0]}
    \cup {[at |-> "item", kind |-> k, idx |-> i] :
            k \in {"notfound", "throw", "garbled"}, i \in {1, MaxFaultIdx}}

\* Limits of the client that follows next links
WalkLimits == {<<"1">>, <<"2">>}

WalkOff == [on |-> FALSE, nxt |-> NoReq, ids |-> <<>>, pages |-> 0, limit |-> 0]

Scenario(tn, n, fault, reqs) ==
    [tn |-> tn, n |-> n, extra |-> <<>>, fault |-> fault, conc |-> 1, reqs |-> reqs,
     walk |-> FALSE]

\* The requests a client may make now
ClientRequests ==
    IF env.walk
    THEN (IF walk.on /\ walk.pages < MaxWalkPages THEN {walk.nxt} ELSE {})
    ELSE env.reqs

\* -------------------------------------------------------------------------
\* The handlers
\* -------------------------------------------------------------------------

\* The cache key a routed request looks up (the URL of its upstream
\* resource), <<>> when the request is answered without the cache.
KeyOf(r) ==
    CASE r.kind = "single" -> fileUrl(Lookup(SINGLE_FILE_TYPES, r.type).value)
      [] r.kind = "item" /\ Truthy(Lookup(COLLECTION_TYPES, r.type)) ->
             itemUrl(Lookup(COLLECTION_TYPES, r.type).value, r.id)
      [] r.kind = "list" ->
             listCacheKey(Lookup(COLLECTION_TYPES, r.type).value, r.full)
      [] OTHER -> <<>>

\* The URL a routed request fetches first on a cache miss
FetchUrlOf(r) ==
    IF r.kind = "list" THEN githubApiUrl(Lookup(COLLECTION_TYPES, r.type).value)
    ELSE KeyOf(r)

\* The response of a request that needs neither cache nor upstream
Immediate(r) ==
    CASE r.kind = "cors" -> handleCors
      [] r.kind = "unknown" ->
             jsonResponse(ErrorBody(<<"Unknown data type: ">> \o r.type), 404)
      [] r.kind = "item" ->
             jsonResponse(ErrorBody(<<"Unknown collection type: ">> \o r.type), 404)
      [] r.kind = "info" -> jsonResponse(InfoBody, 200)
      [] OTHER -> jsonResponse(ErrorBody(<<"Not Found">>), 404)

\* `Data not found: ${type}` and `${type.slice(0, -1)} not found: ${id}`
notFoundMessage(r) ==
    IF r.kind = "single" THEN <<"Data not found: ">> \o r.type
    ELSE SliceDropLast(r.type) \o <<" not found: ">> \o r.id

Done(sl, resp) == [sl EXCEPT !.pc = "done", !.resp = resp]

\* cache.match(cacheKey) rejects
matchThrows == env.fault.at = "cache"

\* A request arrives: it is routed, and a handler that uses the cache awaits
\* cache.match(cacheKey); on a hit the cached response is returned, on a miss
\* the upstream fetch is issued.
Start(s, req) ==
    /\ slot[s].pc = "idle"
    /\ s <= env.conc
    /\ req \in ClientRequests
    /\ Cardinality(pending) < MaxPending
    /\ LET r == Route(req)
           key == KeyOf(r)
           found == key # <<>> /\ ~matchThrows /\ CacheHas(key)
           sl == [IdleSlot EXCEPT
                     !.req = req, !.key = key, !.same = (req = prev.req),
                     !.again = (req = prev.req /\ found /\ CacheEntry(key).tag = LastTag),
                     !.ref = IF req = prev.req THEN prev.resp ELSE NoResp]
       IN /\ slot' = [slot EXCEPT ![s] =
                 IF key = <<>> THEN Done(sl, Immediate(r))
                 ELSE IF matchThrows THEN Done(sl, InternalServerError)
                 ELSE IF found
                 THEN Done([sl EXCEPT !.hit = TRUE], addCorsHeaders(CacheGet(key)))
                 ELSE [sl EXCEPT !.pc = IF r.kind = "list" THEN "list" ELSE "file",
                                 !.calls = 1]]
          /\ cache' = IF found
                      THEN CachePut([CacheEntry(key) EXCEPT !.tag = SlotTag(s)])
                      ELSE cache
    /\ UNCHANGED <<env, pending, prev, walk>>

\* handleSingleFile and handleGetItem failing to put a failure aside: every
\* answer of the upstream is stored
fileOutcome_StoresFailures(r, u) ==
    CASE u.status = "throw" -> [resp |-> InternalServerError, put |-> FALSE]
      [] u.status = "notfound" ->
             [resp |-> jsonResponse(ErrorBody(notFoundMessage(r)), 404), put |-> TRUE]
      [] u.status = "error" ->
             [resp |-> jsonResponse(ErrorBody(<<"Failed to fetch data">>), 502), put |-> TRUE]
      [] OTHER -> [resp |-> PassThrough(u.content), put |-> TRUE]

\* What handleSingleFile and handleGetItem do with the answer u of the raw
\* fetch: the response they build, and whether they go on to cache.put and
\* addCorsHeaders or return it as it is.
fileOutcome(r, u) ==
    CASE u.status = "throw" -> [resp |-> InternalServerError, put |-> FALSE]
      [] u.status = "notfound" ->
             [resp |-> jsonResponse(ErrorBody(notFoundMessage(r)), 404), put |-> FALSE]
      [] u.status = "error" ->
             [resp |-> jsonResponse(ErrorBody(<<"Failed to fetch data">>), 502), put |-> FALSE]
      [] OTHER -> [resp |-> PassThrough(u.content), put |-> TRUE]

\* The raw fetch of handleSingleFile or handleGetItem settles.
FileReply(s) ==
    /\ slot[s].pc = "file"
    /\ LET sl == slot[s]
           r == Route(sl.req)
           o == fileOutcome(r, Upstream(env, FetchUrlOf(r)))
       IN /\ slot' = [slot EXCEPT ![s] =
                 IF o.put THEN Done([sl EXCEPT !.put = "issued"], addCorsHeaders(o.resp))
                 ELSE Done(sl, o.resp)]
          /\ pending' = IF o.put
                        THEN pending \cup {[key |-> sl.key, resp |-> clone(o.resp),
                                            tag |-> SlotTag(s)]}
                        ELSE pending
    /\ UNCHANGED <<env, cache, prev, walk>>

\* itemsData of a batch whose fetches have all settled: the parsed payload
\* of an id that answered ok, null for the others, in the order of the ids.
itemsDataOf(dirPath, page, got) ==
    [i \in 1..Len(page) |->
        [ok |-> page[i] \in got,
         json |-> IF page[i] \in got
                  THEN Upstream(env, itemUrl(dirPath, page[i])).content
                  ELSE FileContent(<<>>)]]

\* The directory listing of handleList settles.  When the fetch rejects,
\* json() rejects or files.filter throws, the exception reaches the catch of
\* fetch.
ListReply(s) ==
    /\ slot[s].pc = "list"
    /\ LET sl == slot[s]
           r == Route(sl.req)
           dirPath == Lookup(COLLECTION_TYPES, r.type).value
           u == Upstream(env, FetchUrlOf(r))
           all == allJsonFiles(u.files)
           page == limitedFiles(all, r.offset, r.limit)
           data == IF r.full
                   THEN fullData(r.type, Len(all), r.offset, r.limit, <<>>)
                   ELSE listData(r.type, jsonFiles(all, r.offset))
       IN CASE u.status \in {"throw", "garbled"} ->
                 /\ slot' = [slot EXCEPT ![s] = Done(sl, InternalServerError)]
                 /\ UNCHANGED pending
            [] u.status \in {"notfound", "error"} ->
                 /\ slot' = [slot EXCEPT ![s] =
                        Done(sl, jsonResponse(ErrorBody(<<"Failed to list ">> \o r.type), 502))]
                 /\ UNCHANGED pending
            [] u.status = "ok" /\ r.full /\ page # <<>> ->
                 /\ slot' = [slot EXCEPT ![s] =
                        [sl EXCEPT !.pc = "items", !.total = Len(all), !.page = page,
                                   !.out = Range(page), !.calls = 1 + Len(page)]]
                 /\ UNCHANGED pending
            [] OTHER ->
                 /\ slot' = [slot EXCEPT ![s] =
                        Done([sl EXCEPT !.total = Len(all), !.put = "issued"],
                             addCorsHeaders(Cacheable(data)))]
                 /\ pending' = pending \cup {[key |-> sl.key, resp |-> clone(Cacheable(data)),
                                            tag |-> SlotTag(s)]}
    /\ UNCHANGED <<env, cache, prev, walk>>

\* The outstanding fetches of a batch that may settle next
Eligible(sl) ==
    IF sl.out = {} THEN {}
    ELSE LET first == CHOOSE i \in 1..Len(sl.page) :
                         /\ sl.page[i] \in sl.out
                         /\ \A j \in 1..(i - 1) : sl.page[j] \notin sl.out
         IN {sl.page[i] : i \in {i \in first..(first + ReplyWindow - 1) :
                i <= Len(sl.page) /\ sl.page[i] \in sl.out}}

\* One item fetch of a full=true batch settles.  A fetch that rejects, or
\* whose body json() cannot parse, makes Promise.all reject at once; when the last fetch settles the response is
\* built, handed to the cache and returned.
ItemReply(s, id) ==
    /\ slot[s].pc = "items"
    /\ id \in Eligible(slot[s])
    /\ LET sl == slot[s]
           r == Route(sl.req)
           dirPath == Lookup(COLLECTION_TYPES, r.type).value
           u == Upstream(env, itemUrl(dirPath, id))
           out2 == sl.out \ {id}
           got2 == IF u.status = "ok" THEN sl.got \cup {id} ELSE sl.got
           bad2 == IF u.status \in {"notfound", "error"} THEN sl.bad \cup {id} ELSE sl.bad
           early == \E j \in 1..Len(sl.page) :
                       /\ sl.page[j] \in sl.out
                       /\ \E i \in (j + 1)..Len(sl.page) : sl.page[i] = id
           data == fullData(r.type, sl.total, r.offset, r.limit,
                            itemsDataOf(dirPath, sl.page, got2))
       IN CASE u.status \in {"throw", "garbled"} ->
                 /\ slot' = [slot EXCEPT ![s] =
                        Done([sl EXCEPT !.out = out2, !.unordered = @ \/ early],
                             InternalServerError)]
                 /\ UNCHANGED pending
            [] u.status \notin {"throw", "garbled"} /\ out2 # {} ->
                 /\ slot' = [slot EXCEPT ![s] =
                        [sl EXCEPT !.out = out2, !.got = got2, !.bad = bad2,
                                   !.unordered = @ \/ early]]
                 /\ UNCHANGED pending
            [] OTHER ->
                 /\ slot' = [slot EXCEPT ![s] =
                        Done([sl EXCEPT !.out = out2, !.got = got2, !.bad = bad2,
                                        !.put = "issued", !.unordered = @ \/ early],
                             addCorsHeaders(Cacheable(data)))]
                 /\ pending' = pending \cup {[key |-> sl.key, resp |-> clone(Cacheable(data)),
                                            tag |-> SlotTag(s)]}
    /\ UNCHANGED <<env, cache, prev, walk>>

\* An item fetch settles after Promise.all has rejected: nothing awaits it.
LateReply(s, id) ==
    /\ slot[s].pc = "done"
    /\ id \in Eligible(slot[s])
    /\ slot' = [slot EXCEPT ![s].out = @ \ {id}]
    /\ UNCHANGED <<env, cache, pending, prev, walk>>

\* The ids of the items of a full page, read off their payloads
PageIds(body) == [i \in 1..Len(body.items) |-> ReplaceFirst(body.items[i].name, DotJson, <<>>)]

\* The client that follows next links takes a page: it keeps the ids and
\* asks for data.next, when the page has one.
WalkOn(resp) ==
    IF resp.status = 200 /\ resp.body.t = "full"
    THEN [walk EXCEPT !.on = resp.body.next.has,
                      !.nxt = [Get(resp.body.next.path) EXCEPT
                                  !.query = resp.body.next.query],
                      !.ids = @ \o PageIds(resp.body),
                      !.pages = @ + 1]
    ELSE [walk EXCEPT !.on = FALSE]

\* The client has its response; the slot is free for the next request.
Recycle(s) ==
    /\ slot[s].pc = "done"
    /\ prev' = [req |-> slot[s].req, resp |-> slot[s].resp]
    /\ walk' = IF env.walk THEN WalkOn(slot[s].resp) ELSE walk
    /\ slot' = [slot EXCEPT ![s] = IdleSlot]
    /\ cache' = Retag(cache, s)
    /\ pending' = Retag(pending, s)
    /\ UNCHANGED env

\* A cache put handed to ctx.waitUntil completes.
PutLand(p) ==
    /\ p \in pending
    /\ cache' = CachePut(p)
    /\ pending' = pending \ {p}
    /\ UNCHANGED <<env, slot, prev, walk>>

\* The handler awaiting cache.put inside the try of fetch: a put that rejects
\* turns the answer into the 500 of the catch
putRejected_Awaited(sl) == Done([sl EXCEPT !.put = "failed"], InternalServerError)

\* The request whose cache put rejects: the promise was handed to
\* ctx.waitUntil and is awaited by nobody, the response stays as it was
\* returned.
putRejected(sl) == [sl EXCEPT !.put = "failed"]

\* A cache put handed to ctx.waitUntil fails.
PutFail(p) ==
    /\ p \in pending
    /\ pending' = pending \ {p}
    /\ slot' = [s \in SlotIds |->
                  IF p.tag = SlotTag(s) THEN putRejected(slot[s]) ELSE slot[s]]
    /\ UNCHANGED <<env, cache, prev, walk>>

\* The freshness window of a cache entry ends.  The request answered last
\* is forgotten with the entry of its key.
Expire(c) ==
    /\ c \in cache
    /\ cache' = cache \ {c}
    /\ prev' = IF KeyOf(Route(prev.req)) = c.key THEN NoPrev ELSE prev
    /\ UNCHANGED <<env, pending, slot, walk>>

\* Every route of one type name, under each fault of its upstream resource
InitRoutes ==
    /\ \E tn \in TypeNames : \E f \in RouteFaults(tn) :
          env = Scenario(tn, SmallDir, f, RouteRequests(tn))
    /\ walk = WalkOff

\* Preflights and http requests of one type name
InitPreflight ==
    /\ \E tn \in PreflightNames : env = Scenario(tn, SmallDir, NoFault, PreflightRequests(tn))
    /\ walk = WalkOff

\* One or two listings of the items collection, under each fault
InitLists ==
    /\ \E qs \in ListPairs : \E f \in ListFaults :
          env = Scenario(T_items, SmallDir, f, {ListRequest(T_items, q) : q \in qs})
    /\ walk = WalkOff

\* Full listings of a directory larger than MAX_ITEMS: no limit, a negative
\* limit
BigQueries ==
    {[full |-> Val(S_true), limit |-> Absent, offset |-> Absent],
     [full |-> Val(S_true), limit |-> Val(<<"-", "1">>), offset |-> Absent]}

InitBig ==
    /\ \E q \in BigQueries : env = Scenario(T_items, BigDir, NoFault, {ListRequest(T_items, q)})
    /\ walk = WalkOff

\* A client that pages through the items collection from offset 0
InitWalk ==
    \E l \in WalkLimits :
       /\ env = [Scenario(T_items, SmallDir, NoFault, {}) EXCEPT !.walk = TRUE]
       /\ walk = [on |-> TRUE, ids |-> <<>>, pages |-> 0,
                  limit |-> parseInt(Val(l)).n,
                  nxt |-> ListRequest(T_items, [full |-> Val(S_true), limit |-> Val(l),
                                                offset |-> Absent])]

\* Values of the query parameters a client may send: none, text that is
\* no number, zero, a negative number, a number followed by text, a
\* hexadecimal number; full in another case than "true"
FullValues == {Absent, Val(S_true), Val(<<"T", "R", "U", "E">>)}

LimitValues ==
    {Absent, Val(<<"x">>), Val(<<"0">>), Val(<<"-", "2">>), Val(<<"2", "x">>),
     Val(<<"0", "x", "2">>)}

OffsetValues == {Absent, Val(<<"x">>), Val(<<"-", "2">>), Val(<<"1">>)}

\* One collection request for each query string
InitParse ==
    /\ \E f \in FullValues, l \in LimitValues, o \in OffsetValues :
          env = Scenario(T_items, SmallDir, NoFault,
                         {ListRequest(T_items, [full |-> f, limit |-> l, offset |-> o])})
    /\ walk = WalkOff

\* The listing of a directory that holds files with odd names, and the
\* requests of the urls the listing gives for them
OddRequests ==
    {ListRequest(T_items, NoQuery)}
    \cup {Get(V1Prefix \o T_items \o <<"/">> \o ReplaceFirst(OddEntries[k].name, DotJson, <<>>)) :
             k \in 1..Len(OddEntries)}

InitOdd ==
    /\ \E k \in 0..(Len(OddEntries) - 1) :
          env = [Scenario(T_items, SmallDir, NoFault, OddRequests) EXCEPT
                    !.extra = SubSeq(OddEntries, 1 + k, Len(OddEntries))]
    /\ walk = WalkOff

\* Requests that race in two isolates: a listing with and without an
\* offset, one page of full data, a single file
RaceRequests ==
    {{ListRequest(T_items, [full |-> Absent, limit |-> Absent, offset |-> Absent]),
      ListRequest(T_items, [full |-> Absent, limit |-> Absent, offset |-> Val(<<"2">>)])},
     {ListRequest(T_items, [full |-> Val(S_true), limit |-> Val(<<"1">>), offset |-> Absent])},
     {Get(V1Prefix \o T_bots)}}

\* Two isolates serve requests at the same time.
InitRace ==
    /\ \E reqs \in RaceRequests :
          env = [Scenario(T_items, SmallDir, NoFault, reqs) EXCEPT !.conc = 2]
    /\ walk = WalkOff

Init ==
    /\ (InitRoutes \/ InitPreflight \/ InitLists \/ InitBig \/ InitWalk \/ InitRace
          \/ InitParse \/ InitOdd)
    /\ cache = {}
    /\ pending = {}
    /\ slot = [s \in SlotIds |-> IdleSlot]
    /\ prev = NoPrev

Next ==
    \/ \E s \in SlotIds : \E req \in ClientRequests : Start(s, req)
    \/ \E s \in SlotIds : FileReply(s)
    \/ \E s \in SlotIds : ListReply(s)
    \/ \E s \in SlotIds : \E id \in Eligible(slot[s]) : ItemReply(s, id)
    \/ \E s \in SlotIds : \E id \in Eligible(slot[s]) : LateReply(s, id)
    \/ \E s \in SlotIds : Recycle(s)
    \/ \E p \in pending : PutLand(p)
    \/ \E p \in pending : PutFail(p)
    \/ \E c \in cache : Expire(c)

Spec == Init /\ [][Next]_vars

\* -------------------------------------------------------------------------
\* Properties
\* -------------------------------------------------------------------------

RouteOf(s) == Route(slot[s].req)

DirOf(s) == Lookup(COLLECTION_TYPES, RouteOf(s).type).value

Answered(s) == slot[s].pc = "done"

IsListRequest(s) == slot[s].pc # "idle" /\ RouteOf(s).kind = "list"

\* The status the upstream gives the item fetch of id in the batch of slot s
ItemStatus(s, id) == Upstream(env, itemUrl(DirOf(s), id)).status

\* What handleList answers a routed list request r on a cold cache, given
\* the upstream of the scenario.
ColdList(r) ==
    LET dirPath == Lookup(COLLECTION_TYPES, r.type).value
        u == Upstream(env, githubApiUrl(dirPath))
        all == allJsonFiles(u.files)
        page == limitedFiles(all, r.offset, r.limit)
        st(id) == Upstream(env, itemUrl(dirPath, id)).status
        got == {id \in Range(page) : st(id) = "ok"}
        rejects(id) == st(id) \in {"throw", "garbled"}
    IN CASE u.status \in {"throw", "garbled"} -> InternalServerError
         [] u.status \in {"notfound", "error"} ->
                jsonResponse(ErrorBody(<<"Failed to list ">> \o r.type), 502)
         [] u.status = "ok" /\ r.full /\ (\E id \in Range(page) : rejects(id)) ->
                InternalServerError
         [] u.status = "ok" /\ r.full /\ ~(\E id \in Range(page) : rejects(id)) ->
                addCorsHeaders(Cacheable(fullData(r.type, Len(all), r.offset, r.limit,
                                                  itemsDataOf(dirPath, page, got))))
         [] OTHER ->
                addCorsHeaders(Cacheable(listData(r.type, jsonFiles(all, r.offset))))

\* C1: a response served from the cache for a collection request is the
\* response the same request produces on a cold cache (no two response
\* variants share a cache key).
C1_CacheHitIsColdResponse ==
    \A s \in SlotIds :
        (Answered(s) /\ IsListRequest(s) /\ slot[s].hit)
            => slot[s].resp = ColdList(RouteOf(s))

\* A page of a full=true request at a positive offset is answered from the
\* cache with another response than the one it produces on a cold cache.
C1_Witness ==
    \E s \in SlotIds :
        /\ Answered(s) /\ IsListRequest(s) /\ slot[s].hit
        /\ RouteOf(s).full /\ RouteOf(s).offset > 0
        /\ slot[s].resp.body.offset = 0
        /\ slot[s].resp # ColdList(RouteOf(s))

NoDuplicates(seq) == \A i, j \in 1..Len(seq) : seq[i] = seq[j] => i = j

\* Number of pages of `limit` items that hold n items
PagesNeeded(n, limit) == (n + limit - 1) \div limit

\* C2: following data.next from offset 0 with a fixed limit never yields an
\* id twice, takes no more pages than the collection has, and ends, at the
\* page without next, with exactly the sorted ids of the collection.
C2_PaginationRoundTrip ==
    env.walk =>
        /\ NoDuplicates(walk.ids)
        /\ walk.pages <= PagesNeeded(env.n, walk.limit)
        /\ (walk.pages > 0 /\ ~walk.on) => walk.ids = [i \in 1..env.n |-> ItemName(i)]

\* The client following next links has taken the same id twice.
C2_Witness == env.walk /\ walk.pages >= 2 /\ ~NoDuplicates(walk.ids)

UsesCache(s) == slot[s].pc # "idle" /\ slot[s].key # <<>>

\* C3 as claimed: the same request issued twice in a row within the
\* freshness window gets byte-identical bodies, the second time without any
\* upstream call.
C3_SameRequestTwice ==
    \A s \in SlotIds :
        (Answered(s) /\ UsesCache(s) /\ slot[s].same)
            => (slot[s].resp.body = slot[s].ref.body /\ slot[s].calls = 0)

\* C3 as amended: when the same request is issued twice in a row and the
\* second finds in the cache the entry the first stored or was answered
\* from, the bodies are byte-identical and the second issues no upstream
\* call.
C3_IdempotentWhenCached ==
    \A s \in SlotIds :
        (Answered(s) /\ slot[s].again)
            => (slot[s].resp.body = slot[s].ref.body /\ slot[s].calls = 0)

C3_Witness ==
    \E s \in SlotIds :
        /\ Answered(s) /\ slot[s].again /\ slot[s].resp.status = 200
        /\ RouteOf(s).kind = "list" /\ RouteOf(s).full

IsFullResponse(resp) == resp.status = 200 /\ resp.body.t = "full"

\* C4: every full=true response has size(items) = count <= limit <= 45.
C4_FullCountWithinLimit ==
    \A s \in SlotIds :
        (Answered(s) /\ IsFullResponse(slot[s].resp))
            => LET b == slot[s].resp.body
               IN Len(b.items) = b.count /\ b.count <= b.limit /\ b.limit <= MAX_ITEMS

\* A full=true response whose limit is negative and whose count exceeds it.
C4_Witness ==
    \E s \in SlotIds :
        /\ Answered(s) /\ IsFullResponse(slot[s].resp)
        /\ slot[s].resp.body.limit < 0
        /\ slot[s].resp.body.count > slot[s].resp.body.limit

\* The batch of slot s has settled with exactly one item fetch answering a
\* non-success status and every other answering ok.
OneItemFailed(s) ==
    /\ Answered(s) /\ IsListRequest(s) /\ RouteOf(s).full /\ ~slot[s].hit
    /\ slot[s].page # <<>> /\ slot[s].out = {}
    /\ Cardinality({i \in 1..Len(slot[s].page) : ItemStatus(s, slot[s].page[i]) # "ok"}) = 1
    /\ \A id \in Range(slot[s].page) : ItemStatus(s, id) \in {"ok", "notfound", "error"}

C6_AliasSameRoute ==
    \A s \in SlotIds : \A e \in SINGLE_FILE_TYPES :
        (slot[s].pc # "idle" /\ slot[s].req.method = "GET"
            /\ slot[s].req.path = V1Prefix \o e[1])
            => (RouteOf(s).kind = "single" /\ slot[s].key = fileUrl(e[2]))

\* GET /v1/skillNodes is answered 404 "Not Found" without a cache key.
C6_Witness ==
    \E s \in SlotIds :
        /\ Answered(s) /\ slot[s].req.method = "GET"
        /\ slot[s].req.path = V1Prefix \o T_skillNodes
        /\ slot[s].resp = jsonResponse(ErrorBody(<<"Not Found">>), 404)
        /\ slot[s].key = <<>>

\* C7: every response carries the CORS and security headers.
C7_HeadersOnEveryResponse ==
    \A s \in SlotIds :
        Answered(s) => CorsSecurityHeaders \subseteq slot[s].resp.headers

\* An error response that carries Content-Type only.
C7_Witness ==
    \E s \in SlotIds :
        /\ Answered(s) /\ slot[s].resp.status = 404
        /\ slot[s].resp.headers = JsonHeaders

RegisteredNames == {e[1] : e \in SINGLE_FILE_TYPES \cup COLLECTION_TYPES}

\* C8: GET /v1/t for a name t of [a-z-]+ that is not registered answers 404
\* "Unknown data type: t" without a cache lookup or an upstream call.
C8_UnknownType ==
    \A s \in SlotIds :
        (slot[s].pc # "idle" /\ slot[s].req.method = "GET"
            /\ listMatch(slot[s].req.path).ok
            /\ listMatch(slot[s].req.path).type \notin RegisteredNames)
            => /\ Answered(s)
               /\ slot[s].resp.status = 404
               /\ slot[s].resp.body
                    = ErrorBody(<<"Unknown data type: ">> \o listMatch(slot[s].req.path).type)
               /\ slot[s].key = <<>>
               /\ slot[s].calls = 0

\* GET /v1/constructor is answered "Data not found: constructor" after a
\* cache lookup and an upstream fetch.
C8_Witness ==
    \E s \in SlotIds :
        /\ Answered(s) /\ slot[s].req.method = "GET"
        /\ slot[s].req.path = V1Prefix \o T_constructor
        /\ slot[s].key # <<>> /\ slot[s].calls = 1
        /\ slot[s].resp.status = 404
        /\ slot[s].resp.body = ErrorBody(<<"Data not found: ">> \o T_constructor)

\* The type name without its trailing "s", when it has one
Singular(type) == IF EndsWith(type, <<"s">>) THEN SubSeq(type, 1, Len(type) - 1) ELSE type

\* C9: a single-item request of a collection whose upstream fetch answers
\* 404 gets 404 "{type without its trailing s} not found: {id}".
C9_ItemNotFound ==
    \A s \in SlotIds :
        (Answered(s) /\ RouteOf(s).kind = "item" /\ RouteOf(s).type \in CollectionNames
            /\ slot[s].req.method = "GET" /\ ~slot[s].hit
            /\ Upstream(env, slot[s].key).status = "notfound")
            => /\ slot[s].resp.status = 404
               /\ slot[s].resp.body
                    = ErrorBody(Singular(RouteOf(s).type) \o <<" not found: ">> \o RouteOf(s).id)

\* An item of hideout that the upstream does not have is answered
\* "hideou not found: {id}".
C9_Witness ==
    \E s \in SlotIds :
        /\ Answered(s) /\ RouteOf(s).kind = "item" /\ RouteOf(s).type = T_hideout
        /\ slot[s].resp.status = 404
        /\ slot[s].resp.body
             = ErrorBody(<<"h", "i", "d", "e", "o", "u">> \o <<" not found: ">> \o RouteOf(s).id)

\* C10: an upstream failure is answered 502: "Failed to fetch data" when the
\* raw fetch answers a non-404 non-success status or fails in transport,
\* "Failed to list {type}" when the directory listing answers any
\* non-success status or fails in transport.
C10_UpstreamFailureIs502 ==
    \A s \in SlotIds :
        LET st == Upstream(env, FetchUrlOf(RouteOf(s))).status
        IN (Answered(s) /\ UsesCache(s) /\ ~slot[s].hit)
            => /\ (RouteOf(s).kind \in {"single", "item"} /\ st \in {"error", "throw"})
                    => slot[s].resp = jsonResponse(ErrorBody(<<"Failed to fetch data">>), 502)
               /\ (RouteOf(s).kind = "list" /\ st \in {"notfound", "error", "throw"})
                    => slot[s].resp
                         = jsonResponse(ErrorBody(<<"Failed to list ">> \o RouteOf(s).type), 502)

\* A single-file fetch that fails in transport is answered 500.
C10_Witness ==
    \E s \in SlotIds :
        /\ Answered(s) /\ UsesCache(s) /\ ~slot[s].hit
        /\ RouteOf(s).kind = "single"
        /\ Upstream(env, FetchUrlOf(RouteOf(s))).status = "throw"
        /\ slot[s].resp = InternalServerError

IsPreflight(s) == slot[s].pc # "idle" /\ slot[s].req.method = "OPTIONS"

\* The cache key the same path would use under GET
GetKeyOf(req) == KeyOf(Route([req EXCEPT !.method = "GET"]))

FirstStatus(s) == Upstream(env, FetchUrlOf(RouteOf(s))).status

\* An exception is raised while the request of slot s is handled: the cache
\* lookup rejects, the first fetch rejects, the listing cannot be read, or
\* an item fetch of the batch rejects or cannot be parsed.
Raised(s) ==
    /\ UsesCache(s) /\ ~slot[s].hit
    /\ \/ matchThrows
       \/ FirstStatus(s) = "throw"
       \/ RouteOf(s).kind = "list" /\ FirstStatus(s) = "garbled"
       \/ /\ RouteOf(s).kind = "list" /\ RouteOf(s).full /\ FirstStatus(s) = "ok"
          /\ \E id \in Range(slot[s].page) :
                id \notin slot[s].out /\ ItemStatus(s, id) \in {"throw", "garbled"}

IsPlainFull(req) ==
    req.query = [full |-> Val(S_true), limit |-> Absent, offset |-> Absent]

\* C13: full=true with no limit and no offset returns every item of the
\* collection in one response, whatever the size of the collection.
C13_FullReturnsAll ==
    \A s \in SlotIds :
        (Answered(s) /\ IsListRequest(s) /\ IsPlainFull(slot[s].req)
            /\ env.fault = NoFault /\ slot[s].resp.status = 200)
            => Len(slot[s].resp.body.items) = env.n

\* A full=true response without limit that holds MAX_ITEMS of the BigDir
\* items and points at a next page.
C13_Witness ==
    \E s \in SlotIds :
        /\ Answered(s) /\ IsListRequest(s) /\ IsPlainFull(slot[s].req) /\ ~slot[s].hit
        /\ slot[s].resp.status = 200 /\ slot[s].resp.body.total = BigDir
        /\ Len(slot[s].resp.body.items) = MAX_ITEMS
        /\ slot[s].resp.body.next.has

\* Outbound requests one inbound request may issue: the listing and
\* MAX_ITEMS item fetches
MaxSubrequests == 1 + MAX_ITEMS

\* C17: no inbound request issues more than 46 outbound requests.
C17_SubrequestBudget == \A s \in SlotIds : slot[s].calls <= MaxSubrequests

\* A full=true request with a negative limit has issued the listing and
\* BigDir - 1 item fetches.
C17_Witness ==
    \E s \in SlotIds :
        /\ IsListRequest(s) /\ RouteOf(s).full /\ RouteOf(s).limit.def
        /\ RouteOf(s).limit.n < 0
        /\ slot[s].calls = BigDir /\ slot[s].calls > MaxSubrequests

\* C14 as claimed: data.total of a full=true response is the number of
\* entries of the upstream directory.
C14_TotalIsEntryCount ==
    \A s \in SlotIds :
        (Answered(s) /\ IsFullResponse(slot[s].resp))
            => slot[s].resp.body.total = Len(Manifest(env.n))

\* C14 as amended: data.total of a full=true response is the number of
\* item ids of the directory (its entries of type file whose name ends
\* with .json and does not start with _), whatever the offset and limit.
C14_TotalIsItemCount ==
    \A s \in SlotIds :
        (Answered(s) /\ IsFullResponse(slot[s].resp))
            => slot[s].resp.body.total = env.n

\* A page at a positive offset that reports the total of the directory
C14_Witness ==
    \E s \in SlotIds :
        /\ Answered(s) /\ IsFullResponse(slot[s].resp) /\ ~slot[s].hit
        /\ slot[s].resp.body.offset > 0
        /\ slot[s].resp.body.count < slot[s].resp.body.total
        /\ slot[s].resp.body.total = env.n

\* The (id, url) pairs of every item of the directory, in sorted order
AllPairs(type) ==
    [i \in 1..env.n |-> [id |-> ItemName(i), url |-> V1Prefix \o type \o <<"/">> \o ItemName(i)]]

IsListOnlyResponse(s) ==
    /\ Answered(s) /\ IsListRequest(s) /\ ~RouteOf(s).full
    /\ slot[s].resp.status = 200 /\ slot[s].resp.body.t = "list"

\* C15: a list-only response holds one (id, url) pair for every id of the
\* sorted listing, with count = size(items), whatever offset and limit the
\* request carries.
C15_ListOnlyIgnoresOffset ==
    \A s \in SlotIds :
        IsListOnlyResponse(s)
            => /\ slot[s].resp.body.items = AllPairs(RouteOf(s).type)
               /\ slot[s].resp.body.count = Len(slot[s].resp.body.items)

\* A list-only request with offset 2 answered, on a cache miss, without the
\* first two ids.
C15_Witness ==
    \E s \in SlotIds :
        /\ IsListOnlyResponse(s) /\ ~slot[s].hit
        /\ RouteOf(s).offset = 2
        /\ slot[s].resp.body.count = env.n - 2
        /\ slot[s].resp.body.items = SubSeq(AllPairs(RouteOf(s).type), 3, env.n)

IsOverHttp(s) == slot[s].pc # "idle" /\ slot[s].req.scheme = "http"

\* C16: a request made over http is answered, before any other handling,
\* with a redirect to the same URL under https.
C16_HttpRedirects ==
    \A s \in SlotIds :
        IsOverHttp(s)
            => /\ Answered(s)
               /\ slot[s].resp.status \in {301, 302, 307, 308}
               /\ \E h \in slot[s].resp.headers : h[1] = "Location"
               /\ slot[s].key = <<>> /\ slot[s].calls = 0

\* A GET over http answered 200 with the upstream content, after a cache
\* lookup and an upstream fetch.
C16_Witness ==
    \E s \in SlotIds :
        /\ IsOverHttp(s) /\ Answered(s) /\ slot[s].req.method = "GET"
        /\ slot[s].resp.status = 200 /\ slot[s].calls = 1

\* The batch of slot s was issued: a full=true request that missed the
\* cache and read a listing with at least one id in its page
BatchIssued(s) ==
    /\ IsListRequest(s) /\ RouteOf(s).full /\ ~slot[s].hit
    /\ slot[s].page # <<>>

\* C18: whatever way item fetches of a full=true batch fail (non-success
\* status, transport failure, unparseable body), the response is 200 with
\* the items whose fetch succeeded.
C18_ItemFailuresSwallowed ==
    \A s \in SlotIds :
        (Answered(s) /\ BatchIssued(s))
            => /\ slot[s].resp.status = 200
               /\ PageIds(slot[s].resp.body)
                    = SelectSeq(slot[s].page, LAMBDA id : ItemStatus(s, id) = "ok")

\* A batch with one item fetch that failed in transport is answered 500.
C18_Witness ==
    \E s \in SlotIds :
        /\ Answered(s) /\ BatchIssued(s)
        /\ Cardinality({id \in Range(slot[s].page) : ItemStatus(s, id) = "throw"}) = 1
        /\ \A id \in Range(slot[s].page) : ItemStatus(s, id) \in {"ok", "throw"}
        /\ slot[s].resp = jsonResponse(ErrorBody(<<"Internal Server Error">>), 500)

\* C19: no response of a full=true request is returned while an item fetch
\* of its batch is outstanding.
C19_ResponseAfterBatchSettled ==
    \A s \in SlotIds : Answered(s) => slot[s].out = {}

\* The response is returned while an item fetch is outstanding.
C19_Witness ==
    \E s \in SlotIds :
        /\ Answered(s) /\ BatchIssued(s) /\ slot[s].out # {}
        /\ slot[s].resp.status = 500

\* The first upstream call of the request of slot s answered 404 or another
\* non-success status.
UpstreamFailed(s) ==
    /\ UsesCache(s) /\ ~slot[s].hit /\ ~matchThrows
    /\ FirstStatus(s) \in {"notfound", "error"}

\* C20: a request whose upstream call answers a non-success status fails
\* at once with that one call, the cache gets no entry and no put for its
\* key, and the next identical request misses the cache and calls the
\* upstream again.
C20_FailureNotCachedNoRetry ==
    \A s \in SlotIds :
        /\ (Answered(s) /\ UpstreamFailed(s))
              => /\ slot[s].calls = 1
                 /\ slot[s].resp.status \in {404, 502}
                 /\ ~CacheHas(slot[s].key)
                 /\ \A p \in pending : p.key # slot[s].key
        /\ (UsesCache(s) /\ slot[s].same /\ slot[s].ref.status \in {404, 502})
              => (~slot[s].hit /\ slot[s].calls >= 1)

\* The request that was answered 502 last is made again and answered after
\* one more upstream call.
C20_Witness ==
    \E s \in SlotIds :
        /\ Answered(s) /\ UpstreamFailed(s) /\ slot[s].same
        /\ slot[s].ref.status = 502 /\ slot[s].resp.status = 502
        /\ slot[s].calls = 1

\* Number of ids of the page a full=true body reports: of body.total ids,
\* those after body.offset, up to body.limit
PageLen(body) ==
    Len(SliceTo(jsonFiles([i \in 1..body.total |-> i], body.offset), body.limit))

IsPartial(resp) == IsFullResponse(resp) /\ Len(resp.body.items) < PageLen(resp.body)

\* C21: a full=true response that lacks an item whose fetch failed is never
\* put in the cache, and the next identical request misses the cache and
\* fetches again instead of being served the partial result.
C21_PartialNotCached ==
    /\ \A c \in cache \cup pending : ~IsPartial(c.resp)
    /\ \A s \in SlotIds :
          (UsesCache(s) /\ slot[s].same /\ IsPartial(slot[s].ref))
              => (~slot[s].hit /\ slot[s].calls >= 1)

\* The request that was answered a partial result last is made again and
\* answered the same partial result from the cache, with no upstream call.
C21_Witness ==
    \E s \in SlotIds :
        /\ Answered(s) /\ slot[s].again /\ slot[s].hit /\ slot[s].calls = 0
        /\ RouteOf(s).full /\ env.fault.at = "item" /\ env.fault.kind = "notfound"
        /\ IsPartial(slot[s].resp) /\ slot[s].resp.body = slot[s].ref.body

\* Two requests are in flight or answered together, both having missed the
\* cache for the same key.
Raced(s, t) ==
    /\ s # t /\ UsesCache(s) /\ UsesCache(t)
    /\ slot[s].key = slot[t].key /\ ~slot[s].hit /\ ~slot[t].hit

\* C22: the cache puts issued for one key, the upstream being unchanged,
\* store the same body, so that what the cache ends up holding for the key
\* does not depend on the order in which racing requests store.
C22_RacingPutsAgree ==
    \A p \in pending \cup cache : \A q \in pending \cup cache :
        p.key = q.key => p.resp.body = q.resp.body

\* Two requests that raced on a miss of one key have each handed the cache
\* a put for it, with different bodies.
C22_Witness ==
    \E s \in SlotIds : \E t \in SlotIds :
        /\ Raced(s, t) /\ Answered(s) /\ Answered(t)
        /\ \E p \in pending : \E q \in pending :
              /\ p.tag = SlotTag(s) /\ q.tag = SlotTag(t)
              /\ p.key = q.key /\ p.resp.body # q.resp.body

\* The response a request that misses the cache builds when its upstream
\* fetches succeed; NoResp when they do not.
FreshResponse(s) ==
    IF RouteOf(s).kind = "list" THEN ColdList(RouteOf(s))
    ELSE IF FirstStatus(s) = "ok"
    THEN addCorsHeaders(PassThrough(Upstream(env, slot[s].key).content))
    ELSE NoResp

\* The request of slot s missed the cache and its upstream fetches succeed.
FetchSucceeds(s) ==
    /\ UsesCache(s) /\ ~slot[s].hit /\ ~matchThrows
    /\ FreshResponse(s).status = 200

\* C23: on a cache miss with a successful upstream fetch the response is
\* returned as soon as the cache put is issued, and it is the response built
\* from the upstream whether the put is still outstanding, has completed or
\* has failed.
C23_PutIsFireAndForget ==
    \A s \in SlotIds :
        /\ (Answered(s) /\ FetchSucceeds(s))
              => (slot[s].put # "none" /\ slot[s].resp = FreshResponse(s))
        /\ \A p \in pending :
              p.tag = SlotTag(s) => (Answered(s) /\ p.resp.body = slot[s].resp.body)

\* A request was answered 200 from the upstream and its cache put failed
\* afterwards, leaving no entry for its key.
C23_Witness ==
    \E s \in SlotIds :
        /\ Answered(s) /\ FetchSucceeds(s) /\ slot[s].put = "failed"
        /\ slot[s].resp.status = 200 /\ ~CacheHas(slot[s].key)

\* The ids of the directory of the scenario in sorted order
DirIds == [i \in 1..env.n |-> ItemName(i)]

\* Place of an id in the sorted ids of the directory
IdRank(id) == CHOOSE i \in 1..env.n : ItemName(i) = id

Increasing(ids) == \A i, j \in 1..Len(ids) : i < j => IdRank(ids[i]) < IdRank(ids[j])

\* C24: the items of a full=true response are in the sorted order of the
\* ids of the listing: on a cache miss they are the sorted ids after the
\* offset, up to the limit, without those whose fetch failed, whatever the
\* order in which the item fetches settled.
C24_ItemsInSortedOrder ==
    \A s \in SlotIds :
        (Answered(s) /\ IsListRequest(s) /\ IsFullResponse(slot[s].resp))
            => /\ Increasing(PageIds(slot[s].resp.body))
               /\ ~slot[s].hit =>
                    PageIds(slot[s].resp.body)
                      = SelectSeq(SliceTo(jsonFiles(DirIds, RouteOf(s).offset),
                                          effectiveLimit(RouteOf(s).limit)),
                                  LAMBDA id : ItemStatus(s, id) = "ok")

\* A full=true response of two items or more whose item fetches settled in
\* another order than that of the ids.
C24_Witness ==
    \E s \in SlotIds :
        /\ Answered(s) /\ IsListRequest(s) /\ IsFullResponse(slot[s].resp)
        /\ ~slot[s].hit /\ slot[s].unordered
        /\ Len(slot[s].resp.body.items) >= 2

\* The text is a decimal integer with an optional sign
IsInteger(v) ==
    LET u == IF v # <<>> /\ v[1] \in {"-", "+"} THEN Tail(v) ELSE v
    IN u # <<>> /\ \A i \in 1..Len(u) : u[i] \in Digits

Unparseable(q) == ~q.has \/ ~IsInteger(q.v)

\* C25: for every query string of a collection request the handler is given
\* full as a boolean that is true only for the value "true", limit unset or
\* a positive integer, offset a non-negative integer; a missing or
\* unparseable value falls back to unset / 0, and the request is answered
\* without an error.
C25_QueryParsing ==
    \A s \in SlotIds :
        IsListRequest(s) =>
            LET r == RouteOf(s)
                q == slot[s].req.query
            IN /\ r.full \in BOOLEAN /\ (r.full <=> q.full = Val(S_true))
               /\ r.limit.def => r.limit.n > 0
               /\ r.offset >= 0
               /\ Unparseable(q.limit) => ~r.limit.def
               /\ Unparseable(q.offset) => r.offset = 0
               /\ (Answered(s) /\ env.fault = NoFault) => slot[s].resp.status = 200

\* A request with limit=-2 and offset=-2 was handled with those values.
C25_Witness ==
    \E s \in SlotIds :
        /\ Answered(s) /\ IsListRequest(s) /\ ~slot[s].hit
        /\ slot[s].req.query.limit = Val(<<"-", "2">>)
        /\ slot[s].req.query.offset = Val(<<"-", "2">>)
        /\ RouteOf(s).limit = [def |-> TRUE, n |-> 0 - 2]
        /\ RouteOf(s).offset = 0 - 2
        /\ IsFullResponse(slot[s].resp)
        /\ slot[s].resp.body.limit = 0 - 2 /\ slot[s].resp.body.offset = 0 - 2

\* The entry is a file whose name ends in ".json" and does not begin with "_"
IsItemFile(f) ==
    /\ f.type = "file"
    /\ Len(f.name) >= 5 /\ SubSeq(f.name, Len(f.name) - 4, Len(f.name)) = DotJson
    /\ f.name[1] # "_"

RECURSIVE StrippedNames(_)
\* The names of the item files of a manifest, each without its last five
\* characters
StrippedNames(files) ==
    IF files = <<>> THEN <<>>
    ELSE (IF IsItemFile(files[1])
          THEN <<SubSeq(files[1].name, 1, Len(files[1].name) - 5)>> ELSE <<>>)
         \o StrippedNames(Tail(files))

ResponseIds(body) == [i \in 1..Len(body.items) |-> body.items[i].id]

\* A list-only request without offset answered from the upstream listing
ListedAll(s) == IsListOnlyResponse(s) /\ ~slot[s].hit /\ RouteOf(s).offset <= 0

\* C26: the ids derived from a manifest are the names of its entries of
\* type file that end in ".json" and do not begin with "_", each without
\* the trailing ".json", in sorted order, and nothing else.
C26_IdsOfManifest ==
    \A s \in SlotIds :
        ListedAll(s)
            => ResponseIds(slot[s].resp.body) = SortIds(StrippedNames(Listing(env)))

\* The listing of a directory that holds x.json.bak.json gives the id
\* x.bak.json, not x.json.bak.
C26_Witness ==
    \E s \in SlotIds :
        /\ ListedAll(s)
        /\ \E k \in 1..Len(env.extra) :
              env.extra[k].name = <<"x">> \o DotJson \o <<".", "b", "a", "k">> \o DotJson
        /\ <<"x", ".", "b", "a", "k">> \o DotJson \in Range(ResponseIds(slot[s].resp.body))
        /\ <<"x">> \o DotJson \o <<".", "b", "a", "k">> \notin Range(ResponseIds(slot[s].resp.body))

\* The item files of the manifest the code derives the id from
FilesOfId(id) ==
    {Listing(env)[k].name : k \in {k \in 1..Len(Listing(env)) :
        /\ IsItemFile(Listing(env)[k])
        /\ ReplaceFirst(Listing(env)[k].name, DotJson, <<>>) = id}}

\* The entry of a list-only response of a collection is addressable: its id
\* is made of [a-z0-9_-], and a GET of its url is handled as the single item
\* of that id and collection, whose upstream URL is that of a file the id
\* was derived from.
Addressable(entry, type) ==
    LET r == Route(Get(entry.url))
    IN /\ entry.id # <<>> /\ AllIdChars(entry.id)
       /\ r.kind = "item" /\ r.type = type /\ r.id = entry.id
       /\ \E f \in FilesOfId(entry.id) :
             KeyOf(r) = DirPrefix(Lookup(COLLECTION_TYPES, type).value) \o f

\* C27: every (id, url) entry of a list-only response is addressable.
C27_EntriesAddressable ==
    \A s \in SlotIds :
        IsListOnlyResponse(s)
            => \A i \in 1..Len(slot[s].resp.body.items) :
                  Addressable(slot[s].resp.body.items[i], RouteOf(s).type)

\* The listing answered last gave the url /v1/items/v1.1 for the file
\* v1.1.json, and a GET of that url is answered 404 "Not Found" without a
\* lookup of the item.
C27_Witness ==
    \E s \in SlotIds :
        /\ prev.resp.status = 200 /\ prev.resp.body.t = "list"
        /\ \E i \in 1..Len(prev.resp.body.items) :
              /\ prev.resp.body.items[i].id = <<"v", "1", ".", "1">>
              /\ slot[s].req = Get(prev.resp.body.items[i].url)
        /\ Answered(s) /\ slot[s].key = <<>>
        /\ slot[s].resp = jsonResponse(ErrorBody(<<"Not Found">>), 404)

====
